---- MODULE Spec2Model ----
(***************************************************************************)
(* Model of the mock-interview session (MockInterviewView) and of the      *)
(* evaluation gateway (geminiService.evaluateMockResponse).                *)
(*                                                                         *)
(* The session is a React function component.  Its state lives in hooks    *)
(* (useState / useRef); every handler is a closure over the values of the  *)
(* render in which it was created.  A handler that is invoked by the user  *)
(* reads the current render's values; a continuation that runs later (the  *)
(* resolution of getUserMedia, recorder.onstop, the code after `await      *)
(* evaluateMockResponse`) still reads the values of the render in which    *)
(* the handler was started, and changes state only through the setters.    *)
(* Functional setters (prev => ...) act on the state at the time they run. *)
(* Setters of an unmounted component do nothing.                           *)
(***************************************************************************)
EXTENDS Integers, Sequences, FiniteSets, TLC

\* ---------------------------------------------------------------- bounds

\* Number of times startRecording may be clicked in one session.
MaxCaptures == 2

\* Number of answers (typed or recorded) the candidate submits in one session.
MaxAnswers == 2

\* Longest text the candidate types into the answer box.
MaxTextLen == 1

\* handleStartAnalysis calls followed.
MaxRuns == 2

\* Sessions saved to the history.
MaxSessions == 1

\* Items of a question pool.
MaxPool == 4

\* Items of a reply of the question service.
MaxItems == 2

\* Bytes of raw PCM data.
MaxPcmLen == 4

\* ------------------------------------------------------ program constants

\* picked = shuffled.slice(0, 3): a session has three rounds.
NumRounds == 3

\* moveToNext: `if (currentIndex < 2)`.
LastIndex == 2

\* withRetry(fn, retries = 3)
Retries == 3

\* pcmToWav: the sample rate generateSpeech passes, and the size of the header.
SampleRate == 24000
HeaderSize == 44

\* ------------------------------------------------------------------ text

SP == "sp"
Chars == {SP, "a"}

RECURSIVE SeqsUpTo(_)
SeqsUpTo(n) ==
    IF n = 0 THEN {<<>>}
    ELSE LET shorter == SeqsUpTo(n - 1)
         IN  shorter \cup {Append(s, c) : s \in {t \in shorter : Len(t) = n - 1}, c \in Chars}

Texts == SeqsUpTo(MaxTextLen)

EmptyText == <<>>

RECURSIVE TrimStart(_)
TrimStart(t) ==
    IF t = <<>> THEN <<>>
    ELSE IF Head(t) = SP THEN TrimStart(Tail(t)) ELSE t

RECURSIVE TrimEnd(_)
TrimEnd(t) ==
    IF t = <<>> THEN <<>>
    ELSE IF t[Len(t)] = SP THEN TrimEnd(SubSeq(t, 1, Len(t) - 1)) ELSE t

\* A trim that removes nothing.
TrimNothing(t) == t

\* String.prototype.trim
Trim(t) == TrimEnd(TrimStart(t))

RemoveAt(s, i) == SubSeq(s, 1, i - 1) \o SubSeq(s, i + 1, Len(s))

\* --------------------------------------------------------------- gateway

\* Values of the string-typed fields of a result.  User text is a sequence over
\* Chars; the fixed texts of the program are one-element sequences.
Undefined == <<"undefined">>
SkippedText == <<"Skipped">>
SkippedFeedback == <<"Question skipped.">>
AudioErrorText == <<"Error processing audio.">>
FailureNotice == <<"Could not generate feedback due to an error.">>
SvcTranscription == <<"service transcription">>
SvcFeedback == <<"service feedback">>

\* The answer handed to processAnswer: a Blob (of capture `blob`) or a string.
AudioInput(id) == [isAudio |-> TRUE, text |-> EmptyText, blob |-> id]
TextInput(t) == [isAudio |-> FALSE, text |-> t, blob |-> 0]

\* response.text as the service may send it: absent (an empty object is parsed
\* in its place), not JSON, or a JSON object that may lack either field.
Body(d, w, t, f) == [defined |-> d, wellFormed |-> w, transcription |-> t, feedback |-> f]

Bodies ==
    {Body(FALSE, FALSE, Undefined, Undefined),
     Body(TRUE, FALSE, Undefined, Undefined),
     Body(TRUE, TRUE, Undefined, Undefined),
     Body(TRUE, TRUE, SvcTranscription, SvcFeedback)}

\* What the environment does during one call of evaluateMockResponse: whether
\* FileReader fails, which of the service calls succeed, and the body sent.
Envs == [encodeFails : BOOLEAN, attempts : [1..Retries -> BOOLEAN], body : Bodies]

RECURSIVE Pow2(_)
Pow2(i) == IF i = 0 THEN 1 ELSE 2 * Pow2(i - 1)

\* The error the k-th invocation of fn rejects with, and the value it resolves
\* with.  withRetry keeps the caught error in lastError and throws that very
\* object: it adds no tag to it.
AttemptError(k) == [attempt |-> k, tag |-> "none"]
AttemptValue(k) == [attempt |-> k]
NoError == AttemptError(0)
NoValue == AttemptValue(0)

\* A loop that gives up one attempt early.
RECURSIVE RetryLoopGivesUpEarly(_, _, _)
RetryLoopGivesUpEarly(attemptOk, i, delays) ==
    IF i >= Retries - 1
    THEN [threw |-> TRUE, calls |-> i, delays |-> delays, errorOf |-> i,
          thrown |-> AttemptError(i), value |-> NoValue]
    ELSE IF attemptOk[i + 1]
         THEN [threw |-> FALSE, calls |-> i + 1, delays |-> delays, errorOf |-> 0,
               thrown |-> NoError, value |-> AttemptValue(i + 1)]
         ELSE RetryLoopGivesUpEarly(attemptOk, i + 1, Append(delays, 1000 * Pow2(i)))

\* A loop whose waits do not grow.
RECURSIVE RetryLoopFlatDelay(_, _, _)
RetryLoopFlatDelay(attemptOk, i, delays) ==
    IF i >= Retries
    THEN [threw |-> TRUE, calls |-> i, delays |-> delays, errorOf |-> i,
          thrown |-> AttemptError(i), value |-> NoValue]
    ELSE IF attemptOk[i + 1]
         THEN [threw |-> FALSE, calls |-> i + 1, delays |-> delays, errorOf |-> 0,
               thrown |-> NoError, value |-> AttemptValue(i + 1)]
         ELSE RetryLoopFlatDelay(attemptOk, i + 1, Append(delays, 1000))

\* The loop of withRetry from iteration i on: attemptOk[k] tells whether the
\* k-th invocation of fn resolves.  calls = invocations of fn, delays = the
\* setTimeout waits in order, errorOf = the attempt whose error is thrown,
\* thrown = that error, value = the value returned.
RECURSIVE RetryLoop(_, _, _)
RetryLoop(attemptOk, i, delays) ==
    IF i >= Retries
    THEN [threw |-> TRUE, calls |-> i, delays |-> delays, errorOf |-> i,
          thrown |-> AttemptError(i), value |-> NoValue]
    ELSE IF attemptOk[i + 1]
         THEN [threw |-> FALSE, calls |-> i + 1, delays |-> delays, errorOf |-> 0,
               thrown |-> NoError, value |-> AttemptValue(i + 1)]
         ELSE RetryLoop(attemptOk, i + 1, Append(delays, 1000 * Pow2(i)))

withRetry(attemptOk) == RetryLoop(attemptOk, 0, <<>>)

\* JSON.parse(response.text || '{}')
JsonParse(body) ==
    IF ~body.defined
    THEN [threw |-> FALSE, transcription |-> Undefined, feedback |-> Undefined]
    ELSE IF ~body.wellFormed
         THEN [threw |-> TRUE, transcription |-> Undefined, feedback |-> Undefined]
         ELSE [threw |-> FALSE, transcription |-> body.transcription, feedback |-> body.feedback]

\* blobToBase64: reader.onerror = reject
blobToBase64(env) == [threw |-> env.encodeFails]

Returned(t, f) == [raised |-> FALSE, transcription |-> t, feedback |-> f]
Raised == [raised |-> TRUE, transcription |-> Undefined, feedback |-> Undefined]

\* An evaluation whose catch block returns nothing usable.
evaluateMockResponseBlankFallback(input, env) ==
    IF input.isAudio /\ blobToBase64(env).threw
    THEN Raised
    ELSE LET response == withRetry(env.attempts)
             parsed == JsonParse(env.body)
         IN  IF response.threw \/ parsed.threw THEN Returned(EmptyText, FailureNotice)
             ELSE Returned(parsed.transcription, parsed.feedback)

\* evaluateMockResponse(input, question, isEnglish) under the environment env.
\* The audio is encoded before the try block; the service call and the parse
\* are inside it.
evaluateMockResponse(input, env) ==
    IF input.isAudio /\ blobToBase64(env).threw
    THEN Raised
    ELSE LET fallback == Returned(IF input.isAudio THEN AudioErrorText ELSE input.text,
                                  FailureNotice)
             response == withRetry(env.attempts)
             parsed == JsonParse(env.body)
         IN  IF response.threw THEN fallback
             ELSE IF parsed.threw THEN fallback
             ELSE Returned(parsed.transcription, parsed.feedback)

\* Every outcome evaluateMockResponse can have for an input.
EvaluationOutcomes(input) == {evaluateMockResponse(input, e) : e \in Envs}

\* --------------------------------------------------------- question pool

\* generateQuestions: the items of the reply in order, each with the id
\* `q-${Date.now()}-${index}` and practiceCount 0; run stands for the clock
\* value of the call, text for the question of the item.
\* `questionEN?: string` of an item: <<>> when the field is missing, else the
\* one text, which may be empty.  The service sends it for some questions.
NoEnglish == <<>>

EnglishOf(text) ==
    CASE text = "qc" -> <<"qc-en">>
      [] text = "qb" -> <<"">>
      [] OTHER -> NoEnglish

QuestionItem(run, index, text) ==
    [id |-> <<run, index>>, question |-> text, questionEN |-> EnglishOf(text),
     practiceCount |-> 0]

generateQuestions(run, texts) ==
    [i \in 1..Len(texts) |-> QuestionItem(run, i - 1, texts[i])]

\* `[...questions].sort(() => 0.5 - Math.random()).slice(0, 3)`: the positions
\* of the pool that come first, second and third after the shuffle.
Draws(pool) ==
    {d \in [1..NumRounds -> 1..Len(pool)] : \A i, j \in 1..NumRounds : d[i] = d[j] => i = j}

\* structured: the picked items with isEnglish false, false, true.
Structured(pool, d) ==
    [i \in 1..NumRounds |-> [item |-> pool[d[i]], isEnglish |-> (i = NumRounds)]]

\* An effect that draws whatever the size of the pool: `picked[i]` of a
\* missing position is undefined.
selectionEffectUnguarded(pool) ==
    {[cancelled |-> FALSE,
      selected |-> [i \in 1..NumRounds |->
                       [item |-> [id |-> <<>>, question |-> "undefined", questionEN |-> NoEnglish,
                                 practiceCount |-> 0],
                        isEnglish |-> (i = NumRounds)]]]}

\* The outcomes of the effect for a pool: it calls onCancel and sets nothing
\* when the pool has fewer than three items, else it sets a drawn selection.
selectionEffect(pool) ==
    IF Len(pool) < 3
    THEN {[cancelled |-> TRUE, selected |-> <<>>]}
    ELSE {[cancelled |-> FALSE, selected |-> Structured(pool, d)] : d \in Draws(pool)}

\* ----------------------------------------------------------------- state

VARIABLES
    viewState,         \* useState: READY | QUESTION | RECORDING | PROCESSING | DONE
    currentIndex,      \* useState: index of the round on screen
    results,           \* useState: MockRoundResult[]
    inputMode,         \* useState: AUDIO | TEXT
    textAnswer,        \* useState: content of the answer box
    mediaRecorderRef,  \* useRef: 0 = null, else the capture whose recorder it holds
    timerRef,          \* useRef: 0, else the capture whose interval id it holds
    captures,          \* every startRecording call: its closure, stream, recorder, interval
    evals,             \* the processAnswer calls awaiting evaluateMockResponse
    status,            \* running | completed | cancelled | crashed
    reported,          \* the results handed to onComplete
    answers,           \* how many answers were submitted so far
    gateway,           \* one call of evaluateMockResponse on its own (SpecGateway)
    app,               \* App state: view, analysis, isAnalyzing, isGeneratingQuestions, mockHistory
    questions,         \* App state.questions, the `questions` prop of the session
    selectedQuestions, \* useState: the three rounds drawn from the pool
    runs               \* every handleStartAnalysis call: the await it is at

sessionVars == <<viewState, currentIndex, results, inputMode, textAnswer,
                 mediaRecorderRef, timerRef, captures, evals, status, reported, answers>>

appVars == <<app, questions, selectedQuestions, runs>>

vars == <<sessionVars, answers, gateway, appVars>>

\* The component is mounted from onStartMock until the parent replaces the
\* view (onComplete, onCancel, the logo, the view change of a finished
\* analysis) or a render throws.
Mounted == status = "running"

\* The views that render the round on screen (everything but READY and DONE):
\* the header with the exit and skip buttons is part of all three.
RoundViews == {"QUESTION", "RECORDING", "PROCESSING"}

\* The mode toggle and the answer controls are rendered unless PROCESSING.
AnswerViews == {"QUESTION", "RECORDING"}

\* selectedQuestions[i].isEnglish: the third entry is the forced English one.
IsEnglish(i) == i = NumRounds - 1

\* `const currentQ = selectedQuestions[currentIndex]; currentQ.isEnglish ...`
\* throws when the index is past the selection.
RenderThrows(vs, idx) == vs \in RoundViews /\ idx >= Len(selectedQuestions)

\* currentQ.item.id of the render whose currentIndex is c.
CurrentQuestionId(c) == selectedQuestions[c + 1].item.id

NoQuestionId == <<>>

\* A stream is open from the resolution of getUserMedia until its tracks are
\* stopped in recorder.onstop.
StreamOpen(c) == c.state \in {"recording", "stopping"}

\* A capture without a stream: its closure is never run again, and only its
\* interval may still be running.
Closed(c, how) ==
    [round |-> 0, question |-> NoQuestionId, qText |-> "", state |-> how, timer |-> c.timer]

\* JavaScript truthiness of `item.questionEN`: neither undefined nor "".
Truthy(en) == en # NoEnglish /\ en[1] # ""

\* displayQuestion of the render: the text on screen for the round.
displayQuestion(q) ==
    IF q.isEnglish /\ Truthy(q.item.questionEN) THEN q.item.questionEN[1] ELSE q.item.question

\* A processAnswer that always sends the primary text.
qTextPrimaryOnly(q) == q.item.question

\* qText of processAnswer: the text sent to the evaluation and put in the result.
qText(q) ==
    IF q.isEnglish /\ Truthy(q.item.questionEN) THEN q.item.questionEN[1] ELSE q.item.question

OpenStreams == {id \in 1..Len(captures) : StreamOpen(captures[id])}

RunningTimers == {id \in 1..Len(captures) : captures[id].timer}

GatewayIdle == [pc |-> "idle"]

SessionInit ==
    /\ viewState = "READY"
    /\ currentIndex = 0
    /\ results = <<>>
    /\ inputMode = "AUDIO"
    /\ textAnswer = EmptyText
    /\ mediaRecorderRef = 0
    /\ timerRef = 0
    /\ captures = <<>>
    /\ evals = <<>>
    /\ status = "running"
    /\ reported = <<>>
    /\ answers = 0

\* App state while the first session is on screen: one analysis run has
\* finished and delivered a pool of three questions, the effect of the session
\* has drawn them, and no other run is pending.
FirstPool == generateQuestions(1, <<"qa", "qb", "qc">>)

FirstSessionMounted ==
    /\ app = [view |-> "MOCK_SESSION", analysis |-> 1, isAnalyzing |-> FALSE,
              isGeneratingQuestions |-> FALSE, mockHistory |-> <<>>,
              profile |-> 1]
    /\ questions = FirstPool
    /\ selectedQuestions = Structured(FirstPool, <<1, 2, 3>>)
    /\ runs = <<"done">>

Init == SessionInit /\ gateway = GatewayIdle /\ FirstSessionMounted

\* --------------------------------------------------------------- session

\* setState of the component: the new view state and index are committed when
\* the component is mounted, and the render that follows may throw.
SetView(vs, idx) ==
    /\ viewState' = vs
    /\ currentIndex' = idx
    /\ status' = IF RenderThrows(vs, idx) THEN "crashed" ELSE status

\* A moveToNext that never reaches the summary.
moveToNextAlwaysAdvances(c) ==
    /\ textAnswer' = EmptyText
    /\ SetView("QUESTION", currentIndex + 1)

\* moveToNext as created in the render whose currentIndex was c.
moveToNext(c) ==
    /\ textAnswer' = EmptyText
    /\ IF c < LastIndex
       THEN SetView("QUESTION", currentIndex + 1)
       ELSE SetView("DONE", currentIndex)

\* The parent renders another view: the answer controls are gone with the
\* component, and the setters that the pending processAnswer calls would use
\* do nothing any more, so these calls are no longer followed.  The session's
\* view state, index and results are kept as they were when it ended.
Unmount ==
    /\ inputMode' = "AUDIO"
    /\ textAnswer' = EmptyText
    /\ evals' = <<>>

\* A handler that counts every question of the pool as practiced.
handleMockCompleteCountsAll(res) ==
    /\ app' = [app EXCEPT !.view = "MOCK_HISTORY",
                          !.mockHistory = Append(@, [rounds |-> res])]
    /\ questions' = [i \in 1..Len(questions) |->
                        [questions[i] EXCEPT !.practiceCount = @ + 1]]

\* A handler that files the session twice.
handleMockCompleteTwice(res) ==
    /\ app' = [app EXCEPT !.view = "MOCK_HISTORY",
                          !.mockHistory = Append(Append(@, [rounds |-> res]), [rounds |-> res])]
    /\ UNCHANGED questions

\* handleMockComplete(res): the session is appended to the history, the view
\* becomes MOCK_HISTORY, and the questions whose id is in res are counted.
\* (The id and timestamp of the session are clock values and are left out.)
PracticedIds(res) == {res[i].questionId : i \in 1..Len(res)}

\* A session that keeps only the first round.
NewSessionFirstRoundOnly(res) == [rounds |-> SubSeq(res, 1, 1)]

NewSession(res) == [rounds |-> res]

handleMockComplete(res) ==
    /\ app' = [app EXCEPT !.view = "MOCK_HISTORY",
                          !.mockHistory = Append(@, NewSession(res))]
    /\ questions' = [i \in 1..Len(questions) |->
                        IF questions[i].id \in PracticedIds(res)
                        THEN [questions[i] EXCEPT !.practiceCount = @ + 1]
                        ELSE questions[i]]

\* onComplete(results): handleMockComplete replaces the view, the component
\* is unmounted.
onComplete ==
    /\ status' = "completed"
    /\ reported' = results
    /\ handleMockComplete(results)
    /\ Unmount

\* onCancel(): the parent goes back to the question bank.
onCancel ==
    /\ status' = "cancelled"
    /\ app' = [app EXCEPT !.view = "QUESTIONS"]
    /\ UNCHANGED <<reported, questions>>
    /\ Unmount

startSession ==
    /\ Mounted
    /\ viewState = "READY"
    /\ viewState' = "QUESTION"
    /\ UNCHANGED <<currentIndex, results, inputMode, textAnswer, mediaRecorderRef,
                   timerRef, captures, evals, status, reported, answers, gateway, appVars>>

\* The X button of the READY view.
cancelReady ==
    /\ Mounted
    /\ viewState = "READY"
    /\ onCancel
    /\ UNCHANGED <<viewState, currentIndex, results, mediaRecorderRef, timerRef,
                   captures, answers, gateway, selectedQuestions, runs>>

\* An exit that saves whatever there is, without asking.
handleExitAlwaysSaves ==
    /\ Mounted
    /\ viewState \in RoundViews
    /\ onComplete
    /\ UNCHANGED <<viewState, currentIndex, results, mediaRecorderRef, timerRef,
                   captures, answers, gateway, selectedQuestions, runs>>

\* The exit button of the header.
handleExit ==
    /\ Mounted
    /\ viewState \in RoundViews
    /\ IF Len(results) > 0
       THEN \E confirmed \in BOOLEAN :
                IF confirmed THEN onComplete
                ELSE UNCHANGED <<status, reported, inputMode, textAnswer, evals,
                                 app, questions>>
       ELSE onCancel
    /\ UNCHANGED <<viewState, currentIndex, results, mediaRecorderRef, timerRef,
                   captures, answers, gateway, selectedQuestions, runs>>

\* The save button of the DONE view.
saveAndReturn ==
    /\ Mounted
    /\ viewState = "DONE"
    /\ onComplete
    /\ UNCHANGED <<viewState, currentIndex, results, mediaRecorderRef, timerRef,
                   captures, answers, gateway, selectedQuestions, runs>>

setInputMode(m) ==
    /\ Mounted
    /\ viewState \in AnswerViews
    /\ inputMode # m
    /\ inputMode' = m
    /\ UNCHANGED <<viewState, currentIndex, results, textAnswer, mediaRecorderRef,
                   timerRef, captures, evals, status, reported, answers, gateway, appVars>>

\* onChange of the textarea.
setTextAnswer(t) ==
    /\ Mounted
    /\ viewState \in AnswerViews
    /\ inputMode = "TEXT"
    /\ textAnswer # t
    /\ textAnswer' = t
    /\ UNCHANGED <<viewState, currentIndex, results, inputMode, mediaRecorderRef,
                   timerRef, captures, evals, status, reported, answers, gateway, appVars>>

\* processAnswer up to its await: the call of evaluateMockResponse is pending,
\* with the closure's currentIndex.
StartEvaluation(c, q, text, input) ==
    evals' = Append(evals, [round |-> c, question |-> q, qText |-> text, input |-> input])

submitTextAnswer ==
    /\ Mounted
    /\ viewState \in AnswerViews
    /\ inputMode = "TEXT"
    /\ IF Trim(textAnswer) = EmptyText
       THEN UNCHANGED <<viewState, evals, answers>>
       ELSE /\ answers < MaxAnswers
            /\ answers' = answers + 1
            /\ viewState' = "PROCESSING"
            /\ StartEvaluation(currentIndex, CurrentQuestionId(currentIndex),
                               qText(selectedQuestions[currentIndex + 1]),
                               TextInput(textAnswer))
    /\ UNCHANGED <<currentIndex, results, inputMode, textAnswer, mediaRecorderRef,
                   timerRef, captures, status, reported, gateway, appVars>>

\* startRecording up to `await getUserMedia`.
startRecording ==
    /\ Mounted
    /\ viewState = "QUESTION"
    /\ inputMode = "AUDIO"
    /\ Len(captures) < MaxCaptures
    /\ captures' = Append(captures, [round |-> currentIndex,
                                      question |-> CurrentQuestionId(currentIndex),
                                      qText |-> qText(selectedQuestions[currentIndex + 1]),
                                      state |-> "pending", timer |-> FALSE])
    /\ UNCHANGED <<viewState, currentIndex, results, inputMode, textAnswer,
                   mediaRecorderRef, timerRef, evals, status, reported, answers, gateway, appVars>>

\* getUserMedia resolves: the rest of the try block of startRecording.
getUserMediaResolved(id) ==
    /\ captures[id].state = "pending"
    /\ captures' = [captures EXCEPT ![id].state = "recording", ![id].timer = TRUE]
    /\ mediaRecorderRef' = id
    /\ timerRef' = id
    /\ IF Mounted THEN viewState' = "RECORDING" ELSE UNCHANGED viewState
    /\ UNCHANGED <<currentIndex, results, inputMode, textAnswer, evals, status,
                   reported, answers, gateway, appVars>>

\* A catch block that gives the round up.
getUserMediaRejectedMovesOn(id) ==
    /\ captures[id].state = "pending"
    /\ captures' = [captures EXCEPT ![id] = Closed(@, "denied")]
    /\ IF Mounted THEN moveToNext(currentIndex)
       ELSE UNCHANGED <<viewState, currentIndex, status, textAnswer>>
    /\ UNCHANGED <<results, inputMode, mediaRecorderRef, timerRef, evals, reported,
                   answers, gateway, appVars>>

\* getUserMedia rejects: the catch block of startRecording.
getUserMediaRejected(id) ==
    /\ captures[id].state = "pending"
    /\ captures' = [captures EXCEPT ![id] = Closed(@, "denied")]
    /\ UNCHANGED <<viewState, currentIndex, results, inputMode, textAnswer,
                   mediaRecorderRef, timerRef, evals, status, reported, answers, gateway, appVars>>

\* clearInterval(timerRef.current)
clearInterval(caps, id) ==
    IF id = 0 THEN caps ELSE [caps EXCEPT ![id].timer = FALSE]

\* The stop button.  MediaRecorder.stop() throws on an inactive recorder, and
\* the handler then ends before clearInterval.
stopRecording ==
    /\ Mounted
    /\ viewState = "RECORDING"
    /\ inputMode = "AUDIO"
    /\ IF mediaRecorderRef # 0 /\ captures[mediaRecorderRef].state = "recording"
       THEN /\ answers < MaxAnswers
            /\ answers' = answers + 1
            /\ captures' = clearInterval(
                   [captures EXCEPT ![mediaRecorderRef].state = "stopping"], timerRef)
            /\ viewState' = "PROCESSING"
       ELSE UNCHANGED <<captures, viewState, answers>>
    /\ UNCHANGED <<currentIndex, results, inputMode, textAnswer, mediaRecorderRef,
                   timerRef, evals, status, reported, gateway, appVars>>

\* recorder.onstop: processAnswer(blob) of the render in which startRecording
\* was clicked, then the tracks of the stream are stopped.
recorderOnStop(id) ==
    /\ captures[id].state = "stopping"
    /\ IF Mounted
       THEN StartEvaluation(captures[id].round, captures[id].question, captures[id].qText,
                            AudioInput(id))
       ELSE UNCHANGED evals
    /\ captures' = [captures EXCEPT ![id] = Closed(@, "released")]
    /\ UNCHANGED <<viewState, currentIndex, results, inputMode, textAnswer,
                   mediaRecorderRef, timerRef, status, reported, answers, gateway, appVars>>

SkippedResult(c) ==
    [round |-> c, questionId |-> CurrentQuestionId(c),
     questionText |-> IF selectedQuestions[c + 1].isEnglish
                         /\ Truthy(selectedQuestions[c + 1].item.questionEN)
                      THEN selectedQuestions[c + 1].item.questionEN[1]
                      ELSE selectedQuestions[c + 1].item.question,
     isEnglishRound |-> selectedQuestions[c + 1].isEnglish, skipped |-> TRUE, audioBlob |-> 0,
     textAnswer |-> Undefined, transcription |-> SkippedText, feedback |-> SkippedFeedback]

\* A result that keeps the text box along with the recording.
EvaluatedResultKeepsText(c, q, text, input, ai) ==
    [round |-> c, questionId |-> q, questionText |-> text, isEnglishRound |-> IsEnglish(c), skipped |-> FALSE,
     audioBlob |-> IF input.isAudio THEN input.blob ELSE 0,
     textAnswer |-> input.text,
     transcription |-> ai.transcription, feedback |-> ai.feedback]

EvaluatedResult(c, q, text, input, ai) ==
    [round |-> c, questionId |-> q, questionText |-> text, isEnglishRound |-> IsEnglish(c), skipped |-> FALSE,
     audioBlob |-> IF input.isAudio THEN input.blob ELSE 0,
     textAnswer |-> IF input.isAudio THEN Undefined ELSE input.text,
     transcription |-> ai.transcription, feedback |-> ai.feedback]

\* The skip button of the header.
handleSkip ==
    /\ Mounted
    /\ viewState \in RoundViews
    /\ results' = Append(results, SkippedResult(currentIndex))
    /\ moveToNext(currentIndex)
    /\ UNCHANGED <<inputMode, mediaRecorderRef, timerRef, captures, evals, reported, answers, gateway, appVars>>

\* evaluateMockResponse settles and processAnswer goes on: with the result it
\* appends and moves on, in the catch block it only moves on.
processAnswerResumes(i) ==
    /\ Mounted
    /\ i \in 1..Len(evals)
    /\ \E ai \in EvaluationOutcomes(evals[i].input) :
        /\ results' = IF ai.raised THEN results
                      ELSE Append(results, EvaluatedResult(evals[i].round, evals[i].question,
                                                           evals[i].qText, evals[i].input, ai))
        /\ moveToNext(evals[i].round)
        /\ evals' = IF status' = "crashed" THEN <<>> ELSE RemoveAt(evals, i)
    /\ UNCHANGED <<inputMode, mediaRecorderRef, timerRef, captures, reported, answers, gateway, appVars>>

SessionNext ==
    \/ startSession
    \/ cancelReady
    \/ handleExit
    \/ saveAndReturn
    \/ \E m \in {"AUDIO", "TEXT"} : setInputMode(m)
    \/ \E t \in Texts : setTextAnswer(t)
    \/ submitTextAnswer
    \/ startRecording
    \/ \E id \in 1..Len(captures) : getUserMediaResolved(id)
    \/ \E id \in 1..Len(captures) : getUserMediaRejected(id)
    \/ stopRecording
    \/ \E id \in 1..Len(captures) : recorderOnStop(id)
    \/ handleSkip
    \/ \E i \in 1..Len(evals) : processAnswerResumes(i)

Next == SessionNext

Spec == Init /\ [][Next]_vars

\* ------------------------------------------------- one action per round

\* No step of an answer is under way: no evaluation is awaited and no capture
\* is waiting for the device, recording or stopping.
Quiet ==
    /\ evals = <<>>
    /\ \A id \in 1..Len(captures) : captures[id].state \in {"denied", "released"}

\* The candidate who acts on a round only once the previous action is over:
\* the handlers are those of the session, pressed when nothing is under way.
OrderlyNext ==
    \/ startSession
    \/ \E m \in {"AUDIO", "TEXT"} : Quiet /\ setInputMode(m)
    \/ \E t \in Texts : Quiet /\ setTextAnswer(t)
    \/ Quiet /\ submitTextAnswer
    \/ Quiet /\ startRecording
    \/ \E id \in 1..Len(captures) : getUserMediaResolved(id)
    \/ \E id \in 1..Len(captures) : getUserMediaRejected(id)
    \/ stopRecording
    \/ \E id \in 1..Len(captures) : recorderOnStop(id)
    \/ Quiet /\ viewState = "QUESTION" /\ handleSkip
    \/ \E i \in 1..Len(evals) : processAnswerResumes(i)
    \/ saveAndReturn

SpecOrderly == Init /\ [][OrderlyNext]_vars

\* The orderly candidate in a session mounted with any selection the effect
\* may draw from the first pool: each question may be the English round.
DisplayInit ==
    /\ SessionInit
    /\ gateway = GatewayIdle
    /\ app = [view |-> "MOCK_SESSION", analysis |-> 1, isAnalyzing |-> FALSE,
              isGeneratingQuestions |-> FALSE, mockHistory |-> <<>>, profile |-> 1]
    /\ questions = FirstPool
    /\ selectedQuestions \in {Structured(FirstPool, d) : d \in Draws(FirstPool)}
    /\ runs = <<"done">>

SpecDisplay == DisplayInit /\ [][OrderlyNext]_vars

\* ------------------------------------------------------------------ App

\* useState of App: the input view, no analysis, no questions, no history.
AppInitial ==
    [view |-> "INPUT", analysis |-> 0, isAnalyzing |-> FALSE,
     isGeneratingQuestions |-> FALSE, mockHistory |-> <<>>, profile |-> 0]

NavItems == {"ANALYSIS", "QUESTIONS", "FAVORITES", "MOCK_HISTORY"}

\* The replies of the question service that are followed: the questions of
\* the items, in order.  A reply may be short and may repeat a question.
ServiceReplies ==
    {<<"qa", "qb">>, <<"qa", "qb", "qc">>, <<"qa", "qa", "qb", "qc">>}

\* The session before it was ever mounted.
SessionUnmounted ==
    /\ viewState = "READY"
    /\ currentIndex = 0
    /\ results = <<>>
    /\ inputMode = "AUDIO"
    /\ textAnswer = EmptyText
    /\ mediaRecorderRef = 0
    /\ timerRef = 0
    /\ captures = <<>>
    /\ evals = <<>>
    /\ status = "unmounted"
    /\ reported = <<>>
    /\ answers = 0

AppInit ==
    /\ SessionUnmounted
    /\ gateway = GatewayIdle
    /\ app = AppInitial
    /\ questions = <<>>
    /\ selectedQuestions = <<>>
    /\ runs = <<>>

\* The parent renders another view without a callback of the session: the
\* component is unmounted as it is.
ReplacedByParent ==
    IF Mounted
    THEN status' = "replaced" /\ Unmount
    ELSE UNCHANGED <<status, inputMode, textAnswer, evals>>

\* The start button of the input view (disabled while isAnalyzing):
\* handleStartAnalysis up to `await generateAnalysis`.
handleStartAnalysis ==
    /\ app.view = "INPUT"
    /\ ~app.isAnalyzing
    /\ Len(runs) < MaxRuns
    /\ app' = [app EXCEPT !.isAnalyzing = TRUE, !.profile = Len(runs) + 1]
    /\ runs' = Append(runs, "analysis")
    /\ UNCHANGED <<sessionVars, gateway, questions, selectedQuestions>>

\* generateAnalysis resolves: the analysis view is shown and the questions are
\* requested.
analysisResolved(r) ==
    /\ runs[r] = "analysis"
    /\ app' = [app EXCEPT !.analysis = r, !.view = "ANALYSIS", !.isAnalyzing = FALSE,
                          !.isGeneratingQuestions = TRUE]
    /\ runs' = [runs EXCEPT ![r] = "questions"]
    /\ ReplacedByParent
    /\ UNCHANGED <<viewState, currentIndex, results, mediaRecorderRef, timerRef, captures,
                   reported, answers, gateway, questions, selectedQuestions>>

\* A catch block that only logs the error.
runRejectedKeepsFlags(r) ==
    /\ runs[r] \in {"analysis", "questions"}
    /\ runs' = [runs EXCEPT ![r] = "failed"]
    /\ UNCHANGED <<sessionVars, gateway, app, questions, selectedQuestions>>

\* generateAnalysis or generateQuestions rejects: the catch block.
runRejected(r) ==
    /\ runs[r] \in {"analysis", "questions"}
    /\ app' = [app EXCEPT !.isAnalyzing = FALSE, !.isGeneratingQuestions = FALSE]
    /\ runs' = [runs EXCEPT ![r] = "failed"]
    /\ UNCHANGED <<sessionVars, gateway, questions, selectedQuestions>>

\* generateQuestions resolves: the pool is replaced.  A mounted session gets a
\* new `questions` prop and its effect runs again.
questionsResolved(r, texts) ==
    /\ runs[r] = "questions"
    /\ runs' = [runs EXCEPT ![r] = "done"]
    /\ questions' = generateQuestions(r, texts)
    /\ IF Mounted
       THEN \E o \in selectionEffect(questions') :
                IF o.cancelled
                THEN /\ status' = "cancelled"
                     /\ app' = [app EXCEPT !.isGeneratingQuestions = FALSE, !.view = "QUESTIONS"]
                     /\ Unmount
                     /\ UNCHANGED selectedQuestions
                ELSE /\ selectedQuestions' = o.selected
                     /\ app' = [app EXCEPT !.isGeneratingQuestions = FALSE]
                     /\ UNCHANGED <<status, inputMode, textAnswer, evals>>
       ELSE /\ app' = [app EXCEPT !.isGeneratingQuestions = FALSE]
            /\ UNCHANGED <<status, inputMode, textAnswer, evals, selectedQuestions>>
    /\ UNCHANGED <<viewState, currentIndex, results, mediaRecorderRef, timerRef, captures,
                   reported, answers, gateway>>

\* The logo of the header: back to the input view from anywhere.
goHome ==
    /\ app.view # "INPUT"
    /\ app' = [app EXCEPT !.view = "INPUT"]
    /\ ReplacedByParent
    /\ UNCHANGED <<viewState, currentIndex, results, mediaRecorderRef, timerRef, captures,
                   reported, answers, gateway, questions, selectedQuestions, runs>>

\* A button of the navigation bar, rendered once there is an analysis and
\* not during a session.
navigate(v) ==
    /\ app.analysis # 0
    /\ app.view # "MOCK_SESSION"
    /\ app.view # v
    /\ app' = [app EXCEPT !.view = v]
    /\ UNCHANGED <<sessionVars, gateway, questions, selectedQuestions, runs>>

\* The start button of the question bank (not rendered while the questions
\* are loading): a new session is mounted and its effect runs.
onStartMock ==
    /\ app.view = "QUESTIONS"
    /\ ~app.isGeneratingQuestions
    /\ Len(app.mockHistory) < MaxSessions
    /\ viewState' = "READY"
    /\ currentIndex' = 0
    /\ results' = <<>>
    /\ inputMode' = "AUDIO"
    /\ textAnswer' = EmptyText
    /\ mediaRecorderRef' = 0
    /\ timerRef' = 0
    /\ captures' = <<>>
    /\ evals' = <<>>
    /\ reported' = <<>>
    /\ answers' = 0
    /\ \E o \in selectionEffect(questions) :
           /\ selectedQuestions' = o.selected
           /\ status' = IF o.cancelled THEN "cancelled" ELSE "running"
           /\ app' = [app EXCEPT !.view = IF o.cancelled THEN "QUESTIONS" ELSE "MOCK_SESSION"]
    /\ UNCHANGED <<gateway, questions, runs>>

\* The App with a session in which the candidate skips or leaves.
AppNext ==
    \/ handleStartAnalysis
    \/ \E r \in 1..Len(runs) : analysisResolved(r)
    \/ \E r \in 1..Len(runs) : runRejected(r)
    \/ \E r \in 1..Len(runs), texts \in ServiceReplies : questionsResolved(r, texts)
    \/ goHome
    \/ \E v \in NavItems : navigate(v)
    \/ onStartMock
    \/ startSession
    \/ cancelReady
    \/ handleSkip
    \/ handleExit
    \/ saveAndReturn

SpecApp == AppInit /\ [][AppNext]_vars

\* The question bank on screen with any pool of up to MaxPool items over
\* three questions, no run pending.
PoolTexts == {"qa", "qb", "qc"}

AnyPools == {generateQuestions(1, texts) : texts \in UNION {[1..n -> PoolTexts] : n \in 0..MaxPool}}

SelectInit ==
    /\ SessionUnmounted
    /\ gateway = GatewayIdle
    /\ app = [view |-> "QUESTIONS", analysis |-> 1, isAnalyzing |-> FALSE,
              isGeneratingQuestions |-> FALSE, mockHistory |-> <<>>,
              profile |-> 1]
    /\ questions \in AnyPools
    /\ selectedQuestions = <<>>
    /\ runs = <<"done">>

SelectNext ==
    \/ onStartMock
    \/ startSession
    \/ cancelReady
    \/ handleSkip
    \/ handleExit
    \/ saveAndReturn

SpecSelect == SelectInit /\ [][SelectNext]_vars

\* ------------------------------------------------- the gateway on its own

\* One call of evaluateMockResponse: any answer, any behaviour of FileReader
\* and of the service.
GatewayInputs == {AudioInput(1)} \cup {TextInput(t) : t \in Texts}

\* The call of withRetry that evaluateMockResponse makes: none when the audio
\* could not be encoded.
NotCalled ==
    [threw |-> FALSE, calls |-> 0, delays |-> <<>>, errorOf |-> 0,
     thrown |-> NoError, value |-> NoValue]

serviceCall(input, env) ==
    IF input.isAudio /\ blobToBase64(env).threw THEN NotCalled ELSE withRetry(env.attempts)

GatewayInit ==
    /\ SessionInit
    /\ FirstSessionMounted
    /\ \E input \in GatewayInputs, env \in Envs :
           gateway = [pc |-> "called", input |-> input, env |-> env,
                      result |-> Returned(Undefined, Undefined), retry |-> NotCalled]

\* The call settles: it returns a value or raises.
evaluateSettles ==
    /\ gateway.pc = "called"
    /\ gateway' = [gateway EXCEPT !.pc = "settled",
                                  !.result = evaluateMockResponse(gateway.input, gateway.env),
                                  !.retry = serviceCall(gateway.input, gateway.env)]
    /\ UNCHANGED <<sessionVars, appVars>>

GatewayNext == evaluateSettles

SpecGateway == GatewayInit /\ [][GatewayNext]_vars

\* ------------------------------------------- the structured endpoints

\* The required fields of the two response schemas.
AnalysisRequired == {"strengths", "competencyLevel", "competencyEvaluation", "intros"}

QuestionRequired ==
    {"category", "question", "questionEN", "intent", "structure", "keyPoints",
     "recommendedAnswer"}

\* The fields generateQuestions sets on every item.
QuestionAdded == {"id", "isFavorite", "userNotes", "practiceCount"}

\* The items a reply may hold: complete, lacking one field, or empty.
ItemShapes ==
    {QuestionRequired, QuestionRequired \ {"questionEN"}, QuestionRequired \ {"question"}, {}}

\* response.text of the structured endpoints: missing, not JSON, or an object
\* with some fields; for the questions, its `items` if any.
AnalysisBodies ==
    {[defined |-> FALSE, wellFormed |-> FALSE, fields |-> {}],
     [defined |-> TRUE, wellFormed |-> FALSE, fields |-> {}]}
    \cup {[defined |-> TRUE, wellFormed |-> TRUE, fields |-> f] : f \in SUBSET AnalysisRequired}

QuestionBodies ==
    {[defined |-> FALSE, wellFormed |-> FALSE, hasItems |-> FALSE, items |-> <<>>],
     [defined |-> TRUE, wellFormed |-> FALSE, hasItems |-> FALSE, items |-> <<>>],
     [defined |-> TRUE, wellFormed |-> TRUE, hasItems |-> FALSE, items |-> <<>>]}
    \cup {[defined |-> TRUE, wellFormed |-> TRUE, hasItems |-> TRUE, items |-> it] :
              it \in UNION {[1..n -> ItemShapes] : n \in 0..MaxItems}}

\* response.candidates?.[0]?.content?.parts?.[0]?.inlineData?.data
SpeechBodies == {[audio |-> FALSE], [audio |-> TRUE]}

EndpointCalls ==
    {[fn |-> "generateAnalysis", attempts |-> a, body |-> b] :
         a \in [1..Retries -> BOOLEAN], b \in AnalysisBodies}
    \cup {[fn |-> "generateQuestions", attempts |-> a, body |-> b] :
              a \in [1..Retries -> BOOLEAN], b \in QuestionBodies}
    \cup {[fn |-> "generateSpeech", attempts |-> a, body |-> b] :
              a \in [1..Retries -> BOOLEAN], b \in SpeechBodies}

EndpointThrew == [threw |-> TRUE, data |-> {}, items |-> <<>>, audio |-> FALSE]
EndpointReturned(data, items, audio) ==
    [threw |-> FALSE, data |-> data, items |-> items, audio |-> audio]

\* JSON.parse(response.text || '{}') of a structured reply: the fields of the
\* parsed object.
ParseOrEmpty(body) ==
    IF ~body.defined THEN [threw |-> FALSE, fields |-> {}]
    ELSE IF ~body.wellFormed THEN [threw |-> TRUE, fields |-> {}]
    ELSE [threw |-> FALSE, fields |-> body.fields]

\* generateAnalysis: `return data as AnalysisResult`, whatever was parsed.
generateAnalysis(call) ==
    IF withRetry(call.attempts).threw THEN EndpointThrew
    ELSE IF ParseOrEmpty(call.body).threw THEN EndpointThrew
    ELSE EndpointReturned(ParseOrEmpty(call.body).fields, <<>>, FALSE)

\* generateQuestions seen from its reply: `(data.items || []).map(...)`, every
\* item spread as received with the four fields added.
generateQuestionsReply(call) ==
    IF withRetry(call.attempts).threw THEN EndpointThrew
    ELSE IF call.body.defined /\ ~call.body.wellFormed THEN EndpointThrew
    ELSE LET items == IF call.body.defined /\ call.body.hasItems THEN call.body.items
                      ELSE <<>>
         IN  EndpointReturned({}, [i \in 1..Len(items) |-> items[i] \cup QuestionAdded], FALSE)

\* A speech call that answers a reply without audio with an empty clip.
generateSpeechSilentFallback(call) ==
    IF withRetry(call.attempts).threw THEN EndpointThrew
    ELSE EndpointReturned({}, <<>>, call.body.audio)

\* generateSpeech: throws when the reply holds no audio data, else returns
\* the WAV blob; the catch block rethrows.
generateSpeech(call) ==
    IF withRetry(call.attempts).threw THEN EndpointThrew
    ELSE IF ~call.body.audio THEN EndpointThrew
    ELSE EndpointReturned({}, <<>>, TRUE)

EndpointOutcome(call) ==
    IF call.fn = "generateAnalysis" THEN generateAnalysis(call)
    ELSE IF call.fn = "generateQuestions" THEN generateQuestionsReply(call)
    ELSE generateSpeech(call)

EndpointInit ==
    /\ SessionInit
    /\ FirstSessionMounted
    /\ \E call \in EndpointCalls :
           gateway = [pc |-> "requested", call |-> call, retry |-> NotCalled,
                      outcome |-> EndpointThrew]

\* The call of the endpoint settles.
endpointSettles ==
    /\ gateway.pc = "requested"
    /\ gateway' = [gateway EXCEPT !.pc = "answered",
                                  !.retry = withRetry(gateway.call.attempts),
                                  !.outcome = EndpointOutcome(gateway.call)]
    /\ UNCHANGED <<sessionVars, appVars>>

EndpointNext == endpointSettles

SpecEndpoints == EndpointInit /\ [][EndpointNext]_vars

\* --------------------------------------------------------- WAV container

\* Byte values the raw PCM data is drawn from.
PcmBytes == {0, 1, 255}

PcmInputs == UNION {[1..n -> PcmBytes] : n \in 0..MaxPcmLen}

\* DataView.setUint32(offset, v, true) and setUint16(offset, v, true): the
\* low 4 (2) bytes of the value, least significant first; the higher bits are
\* dropped, which is the reduction modulo 2^32 (2^16).
LE32(v) == <<v % 256, (v \div 256) % 256, (v \div 65536) % 256, (v \div 16777216) % 256>>

LE16(v) == <<v % 256, (v \div 256) % 256>>

\* writeString of the four tags: the char codes of 'RIFF', 'WAVE', 'fmt ', 'data'.
TagRIFF == <<82, 73, 70, 70>>
TagWAVE == <<87, 65, 86, 69>>
TagFmt == <<102, 109, 116, 32>>
TagData == <<100, 97, 116, 97>>

\* A container whose RIFF size counts the whole file.
pcmToWavWholeFileSize(pcmData, sampleRate) ==
    TagRIFF \o LE32(HeaderSize + Len(pcmData)) \o TagWAVE \o TagFmt \o LE32(16) \o LE16(1)
        \o LE16(1) \o LE32(sampleRate) \o LE32(sampleRate * 2) \o LE16(2) \o LE16(16)
        \o TagData \o LE32(Len(pcmData)) \o pcmData

\* pcmToWav(pcmData, sampleRate): the 44 header bytes in the order of their
\* offsets, then the data.
pcmToWav(pcmData, sampleRate) ==
    LET numChannels == 1
        byteRate == sampleRate * numChannels * 2
        blockAlign == numChannels * 2
        dataSize == Len(pcmData)
    IN  TagRIFF \o LE32(36 + dataSize) \o TagWAVE \o TagFmt \o LE32(16) \o LE16(1)
            \o LE16(numChannels) \o LE32(sampleRate) \o LE32(byteRate) \o LE16(blockAlign)
            \o LE16(16) \o TagData \o LE32(dataSize) \o pcmData

WavInit ==
    /\ SessionInit
    /\ FirstSessionMounted
    /\ \E pcm \in PcmInputs : gateway = [pc |-> "pcm", pcm |-> pcm, wav |-> <<>>]

\* generateSpeech wraps the decoded audio: pcmToWav(pcmData, 24000).
wrapPcm ==
    /\ gateway.pc = "pcm"
    /\ gateway' = [gateway EXCEPT !.pc = "wav", !.wav = pcmToWav(gateway.pcm, SampleRate)]
    /\ UNCHANGED <<sessionVars, appVars>>

WavNext == wrapPcm

SpecWav == WavInit /\ [][WavNext]_vars

\* ---------------------------------------------------------------- claims

\* C1: the results are in strictly increasing round order: of two entries,
\* the earlier one belongs to the earlier round.
ResultsInRoundOrder ==
    \A i, j \in 1..Len(results) : i < j => results[i].round < results[j].round

\* C2: no round has two results (skipped and evaluated, or evaluated twice).
OneResultPerRound ==
    \A i, j \in 1..Len(results) : results[i].round = results[j].round => i = j

\* C3: at most one call of evaluateMockResponse is outstanding at any time.
AtMostOneEvaluation == Len(evals) <= 1

\* C4: while the evaluation of the round on screen is outstanding in
\* PROCESSING, an exit request does not end the session.
ExitDeferredWhileProcessing ==
    [][(/\ Mounted
        /\ viewState = "PROCESSING"
        /\ \E i \in 1..Len(evals) : evals[i].round = currentIndex)
       => status' \notin {"completed", "cancelled"}]_vars

\* C5: at most one capture stream is open at any time.
AtMostOneOpenStream == Cardinality(OpenStreams) <= 1

\* C6: whenever the controller advances to the next round, no capture stream
\* is open.
ReleasedBeforeNextRound ==
    [][currentIndex' = currentIndex + 1 => OpenStreams = {}]_vars

\* The session has ended: it was completed or cancelled, or it shows DONE.
Ended == status \in {"completed", "cancelled"} \/ viewState = "DONE"

\* C7: a session does not end with a recorder still recording on an open
\* stream or with a recording timer still running.
EndedSessionReleased ==
    [][(~Ended /\ Ended')
       => \A id \in 1..Len(captures') :
              captures'[id].state # "recording" /\ ~captures'[id].timer]_vars

\* The edges of the session's state machine as specified.
SpecifiedEdge(vs, idx, vs2, idx2) ==
    \/ vs = "READY" /\ vs2 = "QUESTION" /\ idx2 = idx
    \/ vs = "QUESTION" /\ vs2 = "RECORDING" /\ idx2 = idx
    \/ vs = "QUESTION" /\ vs2 = "PROCESSING" /\ idx2 = idx
    \/ vs = "RECORDING" /\ vs2 = "PROCESSING" /\ idx2 = idx
    \/ vs = "PROCESSING" /\ vs2 = "QUESTION" /\ idx2 = idx + 1
    \/ vs = "PROCESSING" /\ vs2 = "DONE" /\ idx2 = idx
    \/ vs = "QUESTION" /\ vs2 = "QUESTION" /\ idx2 = idx + 1
    \/ vs = "QUESTION" /\ vs2 = "DONE" /\ idx2 = idx

\* C8: viewState and currentIndex change only along the specified edges.
OnlySpecifiedEdges ==
    [][(viewState' # viewState \/ currentIndex' # currentIndex)
       => SpecifiedEdge(viewState, currentIndex, viewState', currentIndex')]_vars

\* C9: whenever processAnswer goes on after the evaluation call, whatever its
\* outcome, it appends a result for its round.
ProcessAnswerAlwaysAppends ==
    [][\A i \in 1..Len(evals) :
          processAnswerResumes(i)
              => /\ Len(results') = Len(results) + 1
                 /\ results'[Len(results')].round = evals[i].round]_vars

\* C10: evaluateMockResponse never raises: every call settles with a value.
EvaluateNeverRaises == gateway.pc = "settled" => ~gateway.result.raised

\* ------------------------------------------------- retries and fallback

\* The service call was made and every attempt of it failed.
AllAttemptsFailed ==
    /\ gateway.pc = "settled"
    /\ gateway.retry.calls > 0
    /\ \A k \in 1..Retries : ~gateway.env.attempts[k]

\* The service call was made; its first f attempts failed and attempt f + 1
\* succeeded.
FirstSuccessAfter(f) ==
    /\ gateway.pc = "settled"
    /\ gateway.retry.calls > 0
    /\ \A k \in 1..f : ~gateway.env.attempts[k]
    /\ gateway.env.attempts[f + 1]

\* The answers the session passes to evaluateMockResponse: a recording, or a
\* text that is not blank (submitTextAnswer returns early on a blank one).
Submitted(input) == input.isAudio \/ Trim(input.text) # EmptyText

\* C11: when every attempt of the service call fails, the value returned for a
\* submitted answer has the fixed failure notice as feedback and a non-empty
\* transcription: the submitted text for a text answer, the fixed marker for
\* a recording.
FallbackOnExhaustion ==
    (AllAttemptsFailed /\ Submitted(gateway.input))
        => /\ ~gateway.result.raised
           /\ gateway.result.feedback = FailureNotice
           /\ gateway.result.transcription # EmptyText
           /\ gateway.result.transcription =
                  IF gateway.input.isAudio THEN AudioErrorText ELSE gateway.input.text

FallbackOnExhaustionWitness ==
    /\ AllAttemptsFailed
    /\ ~gateway.input.isAudio
    /\ Trim(gateway.input.text) # EmptyText
    /\ gateway.result.transcription = gateway.input.text
    /\ gateway.result.feedback = FailureNotice

BackoffDelays(f) == [i \in 1..f |-> 1000 * Pow2(i - 1)]

\* C15: withRetry returns the first success: when the first f attempts fail
\* (f < 3) and the next succeeds, the operation is invoked exactly f + 1
\* times, f waits of 1000 * 2^i ms precede the success, and the value returned
\* is that of attempt f + 1.
FirstSuccessReturned ==
    \A f \in 0..(Retries - 1) :
        FirstSuccessAfter(f)
            => /\ ~gateway.retry.threw
               /\ gateway.retry.calls = f + 1
               /\ gateway.retry.delays = BackoffDelays(f)
               /\ gateway.retry.value = AttemptValue(f + 1)

FirstSuccessWitness ==
    /\ FirstSuccessAfter(2)
    /\ gateway.retry.calls = 3
    /\ gateway.retry.delays = <<1000, 2000>>
    /\ gateway.retry.value = AttemptValue(3)

\* C16: a call of withRetry that makes k attempts waits exactly k - 1 times, so
\* the failure of the last attempt is reported without a further wait.
DelaysOnlyBetweenAttempts ==
    (gateway.pc = "settled" /\ gateway.retry.calls > 0)
        => Len(gateway.retry.delays) = gateway.retry.calls - 1

\* ------------------------------------------------- results and sessions

\* C12: the results never hold more than 3 entries, also after a late
\* completion, and every session handed to the history has 1 to 3 rounds.
AtMostThreeRounds ==
    /\ Len(results) <= 3
    /\ \A k \in 1..Len(app.mockHistory) :
           Len(app.mockHistory[k].rounds) \in 1..3

\* C13: handleSkip on round i appends exactly one result, with skipped set,
\* the transcription "Skipped", the fixed feedback and the question id and
\* language flag of round i; it goes to round i + 1 in QUESTION, or to DONE
\* when i = 2; it starts no evaluation.
SkipAppendsAndAdvances ==
    [][handleSkip
       => /\ Len(results') = Len(results) + 1
          /\ SubSeq(results', 1, Len(results)) = results
          /\ results'[Len(results')].skipped
          /\ results'[Len(results')].transcription = SkippedText
          /\ results'[Len(results')].feedback = SkippedFeedback
          /\ results'[Len(results')].questionId = selectedQuestions[currentIndex + 1].item.id
          /\ results'[Len(results')].isEnglishRound = (currentIndex = 2)
          /\ IF currentIndex = 2
             THEN viewState' = "DONE" /\ currentIndex' = currentIndex
             ELSE viewState' = "QUESTION" /\ currentIndex' = currentIndex + 1
          /\ evals' = evals]_vars

SkipWitness ==
    /\ viewState = "DONE"
    /\ Len(results) = 3
    /\ \A k \in 1..3 : results[k].skipped /\ results[k].round = k - 1
    /\ results[3].questionId = selectedQuestions[3].item.id
    /\ evals = <<>>

\* C20: an exit taken with at least one result hands the history one session
\* whose rounds are the results so far, in order: it is appended to
\* mockHistory.
EarlyExitSavesPartialSession ==
    [][(handleExit /\ Len(results) > 0 /\ status' = "completed")
       => /\ reported' = results
          /\ app'.mockHistory = Append(app.mockHistory, [rounds |-> results])]_vars

EarlyExitWitness ==
    /\ status = "completed"
    /\ viewState \in RoundViews
    /\ Len(results) = 2
    /\ Len(app.mockHistory) = 1
    /\ app.mockHistory[1].rounds = results

\* ------------------------------------------------------------ selection

\* The selection has three entries flagged primary, primary, secondary.
SelectionShape(sel) ==
    /\ Len(sel) = 3
    /\ ~sel[1].isEnglish
    /\ ~sel[2].isEnglish
    /\ sel[3].isEnglish

\* C17: the selection of a session has exactly 3 entries with the language
\* flags primary, primary, secondary whatever the draw, and it does not change
\* for the rest of the session.
SelectionShapedAndFixed ==
    [][/\ Mounted' => SelectionShape(selectedQuestions')
       /\ (Mounted /\ Mounted') => selectedQuestions' = selectedQuestions]_vars

\* The questions of a pool, repeated items counted once.
UniqueQuestions(pool) == {pool[i].question : i \in 1..Len(pool)}

\* C18: when the pool holds at least 3 unique questions, the 3 selected
\* questions are pairwise distinct.
SelectedPairwiseDistinct ==
    (Mounted /\ Cardinality(UniqueQuestions(questions)) >= 3)
        => \A i, j \in 1..Len(selectedQuestions) :
               selectedQuestions[i].item.question = selectedQuestions[j].item.question
                   => i = j

\* C19: a session started on a pool of fewer than 3 questions produces no
\* selection, is handed back through onCancel, and never leaves READY.
SmallPoolCancels ==
    (Len(questions) < 3 /\ status # "unmounted")
        => /\ selectedQuestions = <<>>
           /\ status = "cancelled"
           /\ app.view = "QUESTIONS"
           /\ viewState = "READY"
           /\ results = <<>>

SmallPoolWitness ==
    /\ Len(questions) = 2
    /\ status = "cancelled"
    /\ selectedQuestions = <<>>
    /\ viewState = "READY"

\* ------------------------------------------------------- exit and DONE

\* C21: an exit taken with no result creates no session: mockHistory and the
\* practiceCount of every question are unchanged, and the parent is notified
\* through onCancel only (it goes back to the question bank).
EmptyExitOnlyCancels ==
    [][(handleExit /\ Len(results) = 0)
       => /\ app'.mockHistory = app.mockHistory
          /\ questions' = questions
          /\ reported' = reported
          /\ status' = "cancelled"
          /\ app'.view = "QUESTIONS"]_vars

EmptyExitWitness ==
    /\ status = "cancelled"
    /\ viewState \in RoundViews
    /\ results = <<>>
    /\ app.mockHistory = <<>>
    /\ app.view = "QUESTIONS"
    /\ \A i \in 1..Len(questions) : questions[i].practiceCount = 0

\* C22: DONE is terminal: once viewState is DONE, viewState, currentIndex and
\* the results never change again, and what is reported through onComplete is
\* the results of rounds 0, 1, 2 as they are.
DoneIsTerminal ==
    [][viewState = "DONE"
       => /\ viewState' = "DONE"
          /\ currentIndex' = currentIndex
          /\ results' = results
          /\ (status' = "completed" /\ status # "completed")
                 => /\ reported' = results
                    /\ Len(results) = 3
                    /\ \A k \in 1..3 : results[k].round = k - 1]_vars

\* C23: a session hands the history at most one Session: mockHistory grows
\* only in the step in which onComplete ends the mounted session, by exactly
\* one Session whose rounds are the reported results; nothing is added once
\* the session has ended, and a cancelled session has added none.
OneSessionPerMock ==
    [][/\ app'.mockHistory # app.mockHistory
           => /\ Mounted
              /\ status' = "completed"
              /\ Len(app'.mockHistory) = Len(app.mockHistory) + 1
              /\ SubSeq(app'.mockHistory, 1, Len(app.mockHistory)) = app.mockHistory
              /\ app'.mockHistory[Len(app'.mockHistory)].rounds = reported'
              /\ reported' = results
       /\ status' = "cancelled" => app'.mockHistory = <<>>]_vars

OneSessionWitness ==
    /\ status = "completed"
    /\ viewState = "DONE"
    /\ Len(app.mockHistory) = 1
    /\ app.mockHistory[1].rounds = reported
    /\ Len(reported) = 3

\* ------------------------------------------------- structured endpoints

IsStructuredEndpoint(fn) == fn \in {"generateAnalysis", "generateQuestions"}

\* The reply has the shape its schema requires.
Conforms(call) ==
    /\ call.body.defined
    /\ call.body.wellFormed
    /\ IF call.fn = "generateAnalysis"
       THEN call.body.fields = AnalysisRequired
       ELSE /\ call.body.hasItems
            /\ \A i \in 1..Len(call.body.items) : QuestionRequired \subseteq call.body.items[i]

\* The first attempt of the service call that succeeded, 0 if none did.
FirstSuccess(attempts) ==
    IF \E k \in 1..Retries : attempts[k]
    THEN CHOOSE k \in 1..Retries : attempts[k] /\ \A j \in 1..(k - 1) : ~attempts[j]
    ELSE 0

\* C24: generateAnalysis and generateQuestions return no partial data: when
\* the reply does not conform to the schema (a required field missing, the
\* body empty or not parseable) the call fails with an error.
NoPartialData ==
    (/\ gateway.pc = "answered"
     /\ IsStructuredEndpoint(gateway.call.fn)
     /\ FirstSuccess(gateway.call.attempts) # 0
     /\ ~Conforms(gateway.call))
        => gateway.outcome.threw

\* C25: a reply that violates the schema is not retried: after a successful
\* service call whose body does not parse against the schema no further call
\* is made and the endpoint fails at once, whereas failed service calls are
\* retried up to 3 attempts.
SchemaViolationNotRetried ==
    (gateway.pc = "answered" /\ IsStructuredEndpoint(gateway.call.fn))
        => /\ (FirstSuccess(gateway.call.attempts) # 0 /\ ~Conforms(gateway.call))
                  => /\ gateway.retry.calls = FirstSuccess(gateway.call.attempts)
                     /\ gateway.outcome.threw
           /\ FirstSuccess(gateway.call.attempts) = 0
                  => gateway.retry.calls = 3 /\ gateway.outcome.threw

\* C26: generateSpeech has no silent fallback: when the service call fails on
\* all 3 attempts, or the reply holds no audio data, it raises and returns no
\* audio.
SpeechRaisesWithoutAudio ==
    (/\ gateway.pc = "answered"
     /\ gateway.call.fn = "generateSpeech"
     /\ (FirstSuccess(gateway.call.attempts) = 0 \/ ~gateway.call.body.audio))
        => /\ gateway.outcome.threw
           /\ ~gateway.outcome.audio

SpeechRaisesWitness ==
    /\ gateway.pc = "answered"
    /\ gateway.call.fn = "generateSpeech"
    /\ FirstSuccess(gateway.call.attempts) = 1
    /\ ~gateway.call.body.audio
    /\ gateway.retry.calls = 1
    /\ gateway.outcome.threw

\* ------------------------------------------------------------- answers

\* C27: for a text answer the transcription of the result is the submitted
\* text, verbatim, whatever the service replies and on the fallback path.
TextTranscriptionVerbatim ==
    \A k \in 1..Len(results) :
        (~results[k].skipped /\ results[k].textAnswer # Undefined)
            => results[k].transcription = results[k].textAnswer

\* C28: when getUserMedia rejects in startRecording, viewState, currentIndex
\* and results are unchanged, no stream is opened and no recorder or timer is
\* installed, the answer controls stay as they were: the session is still in
\* QUESTION of the same round and a text answer can be given.
DeviceFailureKeepsRound ==
    [][\A id \in 1..Len(captures) :
          getUserMediaRejected(id)
              => /\ viewState' = viewState
                 /\ currentIndex' = currentIndex
                 /\ results' = results
                 /\ status' = status
                 /\ evals' = evals
                 /\ ~StreamOpen(captures'[id])
                 /\ ~captures'[id].timer
                 /\ OpenStreams' = OpenStreams
                 /\ mediaRecorderRef' = mediaRecorderRef
                 /\ inputMode' = inputMode
                 /\ textAnswer' = textAnswer]_vars

DeviceFailureWitness ==
    /\ Len(captures) = 1
    /\ captures[1].state = "denied"
    /\ viewState = "PROCESSING"
    /\ currentIndex = 0
    /\ results = <<>>
    /\ Len(evals) = 1
    /\ ~evals[1].input.isAudio
    /\ evals[1].round = 0
    /\ OpenStreams = {}

\* C29: submitTextAnswer with a text that is blank after trimming changes
\* nothing and starts no evaluation; with any other text it moves to
\* PROCESSING and starts exactly one evaluation, with that text.
SubmitTextGuarded ==
    [][submitTextAnswer
       => /\ currentIndex' = currentIndex
          /\ results' = results
          /\ IF \A k \in 1..Len(textAnswer) : textAnswer[k] = SP
             THEN viewState' = viewState /\ evals' = evals
             ELSE /\ viewState' = "PROCESSING"
                  /\ Len(evals') = Len(evals) + 1
                  /\ SubSeq(evals', 1, Len(evals)) = evals
                  /\ evals'[Len(evals')].input = TextInput(textAnswer)
                  /\ evals'[Len(evals')].round = currentIndex]_vars

SubmitTextWitness ==
    /\ viewState = "PROCESSING"
    /\ captures = <<>>
    /\ Len(evals) = 1
    /\ evals[1].input = TextInput(<<"a">>)
    /\ evals[1].round = 1
    /\ Len(results) = 1

\* C30: a session in which every round is ended by one action (a text answer,
\* a recording or a skip), each taken after the previous round is over,
\* reaches DONE with exactly 3 results; result i belongs to round i, has the
\* secondary-language flag exactly when i = 2, and is skipped exactly when the
\* round was skipped.
OrderlySessionHasThreeResults ==
    [][/\ (viewState' = "DONE" /\ viewState # "DONE")
           => /\ Len(results') = 3
              /\ \A k \in 1..3 : /\ results'[k].round = k - 1
                                 /\ results'[k].isEnglishRound = (k = 3)
       /\ handleSkip
           => /\ Len(results') = Len(results) + 1
              /\ results'[Len(results')].skipped
              /\ results'[Len(results')].round = currentIndex
       /\ \A i \in 1..Len(evals) :
              processAnswerResumes(i)
                  => /\ Len(results') = Len(results) + 1
                     /\ ~results'[Len(results')].skipped
                     /\ results'[Len(results')].round = currentIndex]_vars

\* -------------------------------------------------------- WAV container

\* The little-endian numbers read back from a container.
U16At(w, off) == w[off + 1] + 256 * w[off + 2]
U32At(w, off) == w[off + 1] + 256 * w[off + 2] + 65536 * w[off + 3] + 16777216 * w[off + 4]

\* C31: pcmToWav wraps n bytes of PCM into exactly 44 + n bytes: a header
\* declaring PCM format, 1 channel, 16 bits per sample, sample rate 24000,
\* byte rate 48000, block align 2, RIFF size 36 + n and data size n, followed
\* by the n input bytes unchanged and in order.
WavContainerCanonical ==
    gateway.pc = "wav"
        => LET w == gateway.wav
               n == Len(gateway.pcm)
           IN  /\ Len(w) = 44 + n
               /\ \A k \in 1..Len(w) : w[k] \in 0..255
               /\ SubSeq(w, 1, 4) = <<82, 73, 70, 70>>
               /\ U32At(w, 4) = 36 + n
               /\ SubSeq(w, 9, 16) = <<87, 65, 86, 69, 102, 109, 116, 32>>
               /\ U32At(w, 16) = 16
               /\ U16At(w, 20) = 1
               /\ U16At(w, 22) = 1
               /\ U32At(w, 24) = 24000
               /\ U32At(w, 28) = 24000 * 2
               /\ U16At(w, 32) = 2
               /\ U16At(w, 34) = 16
               /\ SubSeq(w, 37, 40) = <<100, 97, 116, 97>>
               /\ U32At(w, 40) = n
               /\ SubSeq(w, 45, 44 + n) = gateway.pcm

WavContainerWitness ==
    /\ gateway.pc = "wav"
    /\ gateway.pcm = <<1, 0, 255>>
    /\ Len(gateway.wav) = 47
    /\ SubSeq(gateway.wav, 25, 28) = <<192, 93, 0, 0>>
    /\ SubSeq(gateway.wav, 45, 47) = <<1, 0, 255>>

\* ------------------------------------------------------ index and results

\* C32: while the view is QUESTION, RECORDING or PROCESSING, currentIndex is
\* in 0..2 and selectedQuestions[currentIndex] exists; currentIndex grows by
\* exactly 1, and only when the round on screen is ended (by a skip or by the
\* completion of its own answer), so no round is skipped over.
IndexFollowsRounds ==
    [][/\ viewState' \in RoundViews
           => currentIndex' \in 0..2 /\ currentIndex' < Len(selectedQuestions')
       /\ currentIndex' # currentIndex
           => /\ currentIndex' = currentIndex + 1
              /\ \/ handleSkip
                 \/ \E i \in 1..Len(evals) :
                        processAnswerResumes(i) /\ evals[i].round = currentIndex]_vars

\* C35: a result carries at most one raw answer: audioBlob exactly when the
\* round was answered by a recording, textAnswer exactly when it was answered
\* by text, never both, and neither when the round was skipped.
OneAnswerArtifact ==
    [][/\ handleSkip
           => /\ results'[Len(results')].audioBlob = 0
              /\ results'[Len(results')].textAnswer = Undefined
       /\ \A i \in 1..Len(evals) :
              (processAnswerResumes(i) /\ Len(results') = Len(results) + 1)
                  => LET r == results'[Len(results')]
                     IN  IF evals[i].input.isAudio
                         THEN r.audioBlob = evals[i].input.blob /\ r.audioBlob # 0
                              /\ r.textAnswer = Undefined
                         ELSE r.textAnswer = evals[i].input.text /\ r.textAnswer # Undefined
                              /\ r.audioBlob = 0]_vars

OneAnswerArtifactWitness ==
    /\ Len(results) = 3
    /\ results[1].audioBlob # 0 /\ results[1].textAnswer = Undefined /\ ~results[1].skipped
    /\ results[2].audioBlob = 0 /\ results[2].textAnswer = <<"a">> /\ ~results[2].skipped
    /\ results[3].skipped /\ results[3].audioBlob = 0 /\ results[3].textAnswer = Undefined

\* C37: every value evaluateMockResponse returns has a transcription and a
\* feedback, whatever body the service sent, an empty one included.
EvaluationFieldsDefined ==
    (gateway.pc = "settled" /\ ~gateway.result.raised)
        => /\ gateway.result.transcription # Undefined
           /\ gateway.result.feedback # Undefined

\* C39: handleMockComplete adds exactly 1 to the practiceCount of every
\* question whose id occurs in the reported results, once however often it
\* occurs and also when its round was skipped, and leaves every other question
\* and every other field as it was.
PracticeCountedOnce ==
    [][(status' = "completed" /\ status # "completed")
       => /\ Len(questions') = Len(questions)
          /\ \A i \in 1..Len(questions) :
                 IF \E k \in 1..Len(reported') : reported'[k].questionId = questions[i].id
                 THEN /\ questions'[i].practiceCount = questions[i].practiceCount + 1
                      /\ questions'[i].id = questions[i].id
                      /\ questions'[i].question = questions[i].question
                      /\ questions'[i].questionEN = questions[i].questionEN
                 ELSE questions'[i] = questions[i]]_vars

PracticeCountedWitness ==
    /\ status = "completed"
    /\ Len(reported) = 2
    /\ reported[1].questionId = reported[2].questionId
    /\ reported[1].skipped
    /\ \E i \in 1..Len(questions) :
           /\ questions[i].id = reported[1].questionId
           /\ questions[i].practiceCount = 1
    /\ \E i \in 1..Len(questions) : questions[i].practiceCount = 0

\* ------------------------------------------------------ overlapping runs

RunEnded(r) == runs[r] \in {"done", "failed"}

\* C33: when two runs of handleStartAnalysis overlap, then once every call has
\* completed the stored analysis and the stored questions both belong to the
\* profile submitted last: a late response of the earlier run never overwrites
\* the result of the later run.
LatestRunWins ==
    (/\ Len(runs) >= 2
     /\ \A r \in 1..Len(runs) : RunEnded(r)
     /\ runs[Len(runs)] = "done")
        => /\ app.analysis = app.profile
           /\ \A i \in 1..Len(questions) : questions[i].id[1] = app.profile

\* C34: while the view is MOCK_SESSION it changes only through the session's
\* own onComplete or onCancel; a pending handleStartAnalysis call that
\* completes never replaces the view and discards the running session.
SessionViewOwnedBySession ==
    [][(app.view = "MOCK_SESSION" /\ app'.view # "MOCK_SESSION")
           => status' \in {"completed", "cancelled"}]_vars

\* C38: after a single run of handleStartAnalysis has ended, isAnalyzing and
\* isGeneratingQuestions are both false.  A failure leaves view, analysis and
\* questions as they were: before the analysis they are the old ones, after it
\* the new analysis is kept, with the view ANALYSIS it was given.
RunEndsClean ==
    [][/\ \A r \in 1..Len(runs) :
              /\ runRejected(r)
                  => /\ app'.view = app.view
                     /\ app'.analysis = app.analysis
                     /\ questions' = questions
              /\ analysisResolved(r)
                  => /\ app'.analysis = r
                     /\ app'.view = "ANALYSIS"
                     /\ questions' = questions
       /\ (Len(runs') = 1 /\ runs'[1] \in {"done", "failed"})
              => ~app'.isAnalyzing /\ ~app'.isGeneratingQuestions]_vars

RunEndsCleanWitness ==
    /\ runs = <<"failed">>
    /\ app.analysis = 1
    /\ app.view = "ANALYSIS"
    /\ questions = <<>>
    /\ ~app.isAnalyzing
    /\ ~app.isGeneratingQuestions

\* ------------------------------------------------------ question text

\* The text the round shows, in the words of the description: the English
\* text when the round is the English round and that text is there and not
\* empty, else the primary text.
ShownText(q) ==
    IF q.isEnglish /\ q.item.questionEN # <<>> /\ q.item.questionEN # <<"">>
    THEN q.item.questionEN[1]
    ELSE q.item.question

\* C36: the questionText of every result, evaluated or skipped, is the text
\* displayed for its round (the English text in the English round when it is
\* present and not empty, else the primary text), and the same text is the
\* one sent to the evaluation call.
QuestionTextAsDisplayed ==
    /\ \A i \in 1..Len(selectedQuestions) :
           displayQuestion(selectedQuestions[i]) = ShownText(selectedQuestions[i])
    /\ \A k \in 1..Len(results) :
           results[k].questionText = displayQuestion(selectedQuestions[results[k].round + 1])
    /\ \A k \in 1..Len(reported) :
           reported[k].questionText = displayQuestion(selectedQuestions[reported[k].round + 1])
    /\ \A i \in 1..Len(evals) :
           evals[i].qText = displayQuestion(selectedQuestions[evals[i].round + 1])

QuestionTextWitness ==
    /\ Len(results) = 3
    /\ selectedQuestions[3].item.questionEN = <<"qc-en">>
    /\ ~results[3].skipped /\ results[3].isEnglishRound /\ results[3].questionText = "qc-en"
    /\ selectedQuestions[1].item.questionEN = <<"">>
    /\ results[1].skipped /\ results[1].questionText = "qb"
    /\ ~results[2].skipped /\ results[2].questionText = "qa"

====
